---- MODULE Spec2Model ----
(***************************************************************************)
(* Model of the with_dir crate (src/src/lib.rs): WithDir, a guard that     *)
(* changes the process working directory on construction and restores it   *)
(* when it is left or dropped, under the static reentrant mutex DIR_MUTEX. *)
(*                                                                         *)
(* The process state is the file system (the set of existing directories), *)
(* the process working directory, the reentrant mutex, and for each thread *)
(* its position in the WithDir call it is executing and the guards it      *)
(* holds.  Every call into the operating system (lock, current_dir,        *)
(* create_dir, set_current_dir, unlock, TempDir removal) is one step, so   *)
(* that threads interleave between them exactly where the code allows.     *)
(***************************************************************************)
EXTENDS Integers, Sequences, FiniteSets, TLC

(***************************************************************************)
(* Bounds of the model.                                                    *)
(***************************************************************************)
\* constructor calls (successful or not) made in one run
MaxCalls == 3
\* directory removals performed by code outside WithDir in one run
MaxRemoves == 1

(***************************************************************************)
(* Threads.  "main" is the thread the process exits with; "worker" is a    *)
(* thread spawned by it (tests::test_multithreaded).                       *)
(***************************************************************************)
Threads == {"main", "worker"}
NoThread == "none"

(***************************************************************************)
(* Paths.  An absolute directory is the sequence of its components; the    *)
(* root is << >>.  A path argument is absolute or relative to the CWD.     *)
(***************************************************************************)
Root == << >>
DirA == <<"a">>
DirAB == <<"a", "b">>
DirC == <<"c">>
DirCD == <<"c", "d">>
FileF == <<"f">>
UnderF == <<"f", "d">>
TempRoot == <<"tmp">>
TempNames == <<"t1", "t2", "t3">>
NoPath == <<"?">>

Abs(p) == [abs |-> TRUE, comps |-> p]
Rel(p) == [abs |-> FALSE, comps |-> p]
NoArg == Abs(NoPath)

\* the paths the callers pass to new, create and create_all: the main thread
\* works in a (tests::it_works, tests::test_create_dir), the worker in its own
\* directory a/b (tests::threaded_test_worker)
NewArgs(t) == IF t = "main" THEN {Abs(DirA), Rel(<<"b">>), Abs(DirC)} ELSE {Abs(DirAB)}
CreateArgs(t) == IF t = "main" THEN {Abs(DirC), Abs(DirCD)} ELSE {}
CreateAllArgs(t) == IF t = "main" THEN {Abs(DirCD), Abs(UnderF)} ELSE {}
\* the regular files of the file system (never directories)
Files == {FileF}
\* the directories code outside WithDir may remove
Removable == {DirA, TempRoot}

IsPrefix(p, q) == Len(p) <= Len(q) /\ SubSeq(q, 1, Len(p)) = p
Parent(p) == SubSeq(p, 1, Len(p) - 1)
Prefixes(p) == {SubSeq(p, 1, k) : k \in 0..Len(p)}
\* std::path resolution of a path argument against the working directory
Resolve(c, arg) == IF arg.abs THEN arg.comps ELSE c \o arg.comps
\* remove_dir_all: the directory and everything below it
RemoveTree(fs, p) == {d \in fs : ~IsPrefix(p, d)}

VARIABLES
    fsDirs,         \* the directories that exist
    cwd,            \* the process working directory (a path)
    cwdGone,        \* TRUE when the working directory has been unlinked
    lockOwner,      \* DIR_MUTEX: the owning thread, or NoThread
    lockCount,      \* DIR_MUTEX: the owner's acquisition count
    pc,             \* each thread's position
    cur,            \* each thread's call in progress (locals of the call)
    guards,         \* each thread's live WithDir values, in creation order
    ret,            \* what each thread's last call returned to its caller
    alive,          \* FALSE once the process has terminated
    panicking,      \* the threads that are unwinding a panic
    calls,          \* constructor calls made so far
    removes,        \* outside removals made so far
    lifo,           \* history: every guard was ended while innermost
    restoreFailed   \* history: some reset_cwd has failed

vars == <<fsDirs, cwd, cwdGone, lockOwner, lockCount, pc, cur, guards, ret,
          alive, panicking, calls, removes, lifo, restoreFailed>>

fsVars == <<fsDirs, cwd, cwdGone>>
lockVars == <<lockOwner, lockCount>>
histVars == <<lifo, restoreFailed>>
procVars == <<alive, panicking>>

(***************************************************************************)
(* struct WithDir: original_dir, cwd (Temp or NotTemp) and mutex are the   *)
(* fields; dir (the directory entered), pre (the CWD when the constructor  *)
(* took the lock), resets and releases are history of the guard.           *)
(***************************************************************************)
\* as if every guard owned its directory the way Cwd::Temp(TempDir) does
WithDirOwning(orig, arg, isTemp, d, before) ==
    [original_dir |-> orig, path |-> arg, temp |-> TRUE, mutex |-> TRUE,
     dir |-> d, pre |-> before, resets |-> 0, releases |-> 0]
WithDir(orig, arg, isTemp, d, before) ==
    [original_dir |-> orig, path |-> arg, temp |-> isTemp, mutex |-> TRUE,
     dir |-> d, pre |-> before, resets |-> 0, releases |-> 0]
NoGuard ==
    [original_dir |-> NoPath, path |-> NoArg, temp |-> FALSE, mutex |-> FALSE,
     dir |-> NoPath, pre |-> NoPath, resets |-> 0, releases |-> 0]
NoCall ==
    [op |-> "none", path |-> NoArg, original_dir |-> NoPath, pre |-> NoPath,
     tmp |-> NoPath, g |-> NoGuard, ret |-> "none", count0 |-> 0]
NoRet == [op |-> "none", val |-> "none", dir |-> NoPath, resets |-> 0, releases |-> 0]

CtorOps == {"new", "temp", "create", "create_all"}

Init ==
    /\ fsDirs = {Root, DirA, DirAB, TempRoot}
    /\ cwd = Root
    /\ cwdGone = FALSE
    /\ lockOwner = NoThread
    /\ lockCount = 0
    /\ pc = [t \in Threads |-> "idle"]
    /\ cur = [t \in Threads |-> NoCall]
    /\ guards = [t \in Threads |-> << >>]
    /\ ret = [t \in Threads |-> NoRet]
    /\ alive = TRUE
    /\ panicking = {}
    /\ calls = 0
    /\ removes = 0
    /\ lifo = TRUE
    /\ restoreFailed = FALSE

(***************************************************************************)
(* DIR_MUTEX, a parking_lot::ReentrantMutex.                               *)
(***************************************************************************)
\* the acquisition count of thread t
HeldBy(t) == IF lockOwner = t THEN lockCount ELSE 0
LockNeverWaits(t) == TRUE
\* as if DIR_MUTEX were a plain Mutex, which its owner cannot take again
LockNotReentrant(t) == lockOwner = NoThread
\* lock() returns at once for the owner, and for anyone when the mutex is free
CanLock(t) == lockOwner \in {NoThread, t}
OwnerForgotten == NoThread
\* as if the last unlock left the mutex marked with its owner
OwnerKept == lockOwner
\* dropping one ReentrantMutexGuard
OwnerAfterUnlock == IF lockCount = 1 THEN NoThread ELSE lockOwner
\* as if the ReentrantMutexGuard were leaked (std::mem::forget) instead of dropped
UnlockLeaks == UNCHANGED lockVars
UnlockAll ==
    /\ lockCount' = 0
    /\ lockOwner' = NoThread
Unlock ==
    /\ lockCount' = lockCount - 1
    /\ lockOwner' = OwnerAfterUnlock

Remove(s, i) == SubSeq(s, 1, i - 1) \o SubSeq(s, i + 1, Len(s))

(***************************************************************************)
(* The constructors: WithDir::new, temp, create, create_all.               *)
(***************************************************************************)
\* a thread free to run caller code
Running(t) == alive /\ pc[t] = "idle" /\ t \notin panicking

\* the caller invokes a constructor; its first statement is DIR_MUTEX.lock()
CallCtor(t, op, arg) ==
    /\ Running(t)
    /\ calls < MaxCalls
    /\ calls' = calls + 1
    /\ pc' = [pc EXCEPT ![t] = "lock"]
    /\ cur' = [cur EXCEPT ![t] = [NoCall EXCEPT !.op = op, !.path = arg,
                                                !.count0 = HeldBy(t)]]
    /\ ret' = [ret EXCEPT ![t] = NoRet]
    /\ UNCHANGED <<fsVars, lockVars, guards, procVars, removes, histVars>>

\* let m = DIR_MUTEX.lock();
Lock(t) ==
    /\ alive
    /\ pc[t] = "lock"
    /\ CanLock(t)
    /\ lockOwner' = t
    /\ lockCount' = lockCount + 1
    /\ pc' = [pc EXCEPT ![t] = "current_dir"]
    /\ cur' = [cur EXCEPT ![t].pre = cwd]
    /\ UNCHANGED <<fsVars, guards, ret, procVars, calls, removes, histVars>>

ErrKeepsLock == UNCHANGED lockVars
\* the `?` return of a constructor drops its local m, which unlocks
ErrUnlock == Unlock

\* the `?` return of a constructor: the locals are dropped in reverse order of
\* declaration (temp_dir, which removes the directory, then m, which unlocks)
ErrReturn(t) ==
    /\ ErrUnlock
    /\ pc' = [pc EXCEPT ![t] = "idle"]
    /\ ret' = [ret EXCEPT ![t] = [NoRet EXCEPT !.op = cur[t].op, !.val = "err"]]
    /\ cur' = [cur EXCEPT ![t] = NoCall]
    /\ IF cur[t].tmp # NoPath
       THEN /\ fsDirs' = RemoveTree(fsDirs, cur[t].tmp)
            /\ cwdGone' = (cwdGone \/ IsPrefix(cur[t].tmp, cwd))
            /\ cwd' = cwd
       ELSE UNCHANGED fsVars
    /\ UNCHANGED <<guards, procVars, calls, removes, histVars>>

\* std::env::current_dir(): fails when the working directory was unlinked
current_dir_ok == ~cwdGone

\* let original_dir = current_dir()?;
CurrentDirOk(t) ==
    /\ alive
    /\ pc[t] = "current_dir"
    /\ current_dir_ok
    /\ cur' = [cur EXCEPT ![t].original_dir = cwd]
    /\ pc' = [pc EXCEPT ![t] = IF cur[t].op = "new" THEN "set_current_dir"
                                ELSE "mkdir"]
    /\ UNCHANGED <<fsVars, lockVars, guards, ret, procVars, calls,
                   removes, histVars>>

CurrentDirErr(t) ==
    /\ alive
    /\ pc[t] = "current_dir"
    /\ ~current_dir_ok
    /\ ErrReturn(t)

\* a path the kernel can look up: relative paths need a linked working directory
Reachable(arg) == arg.abs \/ ~cwdGone

\* std::fs::create_dir: the parent must be a directory, the name must be free
create_dir_ok(arg) ==
    LET p == Resolve(cwd, arg) IN
    /\ Reachable(arg)
    /\ Len(p) > 0
    /\ Parent(p) \in fsDirs
    /\ p \notin fsDirs
    /\ p \notin Files

\* std::fs::create_dir_all: fails only when a component is not a directory
create_dir_all_ok(arg) ==
    /\ Reachable(arg)
    /\ Prefixes(Resolve(cwd, arg)) \cap Files = {}

\* create_dir(&path)?;
CreateDirOk(t) ==
    /\ alive
    /\ pc[t] = "mkdir"
    /\ cur[t].op = "create"
    /\ create_dir_ok(cur[t].path)
    /\ fsDirs' = fsDirs \cup {Resolve(cwd, cur[t].path)}
    /\ pc' = [pc EXCEPT ![t] = "set_current_dir"]
    /\ UNCHANGED <<cwd, cwdGone, lockVars, cur, guards, ret, procVars,
                   calls, removes, histVars>>

CreateDirErr(t) ==
    /\ alive
    /\ pc[t] = "mkdir"
    /\ cur[t].op = "create"
    /\ ~create_dir_ok(cur[t].path)
    /\ ErrReturn(t)

\* create_dir_all(&path)?;
CreateDirAllOk(t) ==
    /\ alive
    /\ pc[t] = "mkdir"
    /\ cur[t].op = "create_all"
    /\ create_dir_all_ok(cur[t].path)
    /\ fsDirs' = fsDirs \cup Prefixes(Resolve(cwd, cur[t].path))
    /\ pc' = [pc EXCEPT ![t] = "set_current_dir"]
    /\ UNCHANGED <<cwd, cwdGone, lockVars, cur, guards, ret, procVars,
                   calls, removes, histVars>>

CreateDirAllErr(t) ==
    /\ alive
    /\ pc[t] = "mkdir"
    /\ cur[t].op = "create_all"
    /\ ~create_dir_all_ok(cur[t].path)
    /\ ErrReturn(t)

\* TempDir::new picks a random name that is not in use; the names being
\* interchangeable, the model takes the first free one
FreeTemps == {i \in 1..Len(TempNames) : TempRoot \o <<TempNames[i]>> \notin fsDirs}
FreshTemp == TempRoot \o <<TempNames[CHOOSE i \in FreeTemps : \A j \in FreeTemps : i <= j]>>

\* let temp_dir = TempDir::new()?;
TempDirNewOk(t) ==
    /\ alive
    /\ pc[t] = "mkdir"
    /\ cur[t].op = "temp"
    /\ TempRoot \in fsDirs
    /\ FreeTemps # {}
    /\ fsDirs' = fsDirs \cup {FreshTemp}
    /\ cur' = [cur EXCEPT ![t].tmp = FreshTemp]
    /\ pc' = [pc EXCEPT ![t] = "set_current_dir"]
    /\ UNCHANGED <<cwd, cwdGone, lockVars, guards, ret, procVars,
                   calls, removes, histVars>>

TempDirNewErr(t) ==
    /\ alive
    /\ pc[t] = "mkdir"
    /\ cur[t].op = "temp"
    /\ TempRoot \notin fsDirs
    /\ ErrReturn(t)

\* the path handed to set_current_dir by the constructor
Target(t) == IF cur[t].op = "temp" THEN Abs(cur[t].tmp) ELSE cur[t].path

\* std::env::set_current_dir: the path must name an existing directory
set_current_dir_ok(arg) == Reachable(arg) /\ Resolve(cwd, arg) \in fsDirs

ChangedToFromRoot(arg) == arg.comps
\* the directory the process is in after set_current_dir(arg) succeeded
ChangedTo(arg) == Resolve(cwd, arg)

\* set_current_dir(&path)?; Ok(WithDir { original_dir, cwd, mutex: Some(m) })
SetCurrentDirOk(t) ==
    /\ alive
    /\ pc[t] = "set_current_dir"
    /\ set_current_dir_ok(Target(t))
    /\ cwd' = ChangedTo(Target(t))
    /\ cwdGone' = FALSE
    /\ guards' = [guards EXCEPT ![t] =
            Append(@, WithDir(cur[t].original_dir, Target(t), cur[t].op = "temp",
                              Resolve(cwd, Target(t)), cur[t].pre))]
    /\ ret' = [ret EXCEPT ![t] = [NoRet EXCEPT !.op = cur[t].op, !.val = "ok"]]
    /\ pc' = [pc EXCEPT ![t] = "idle"]
    /\ cur' = [cur EXCEPT ![t] = NoCall]
    /\ UNCHANGED <<fsDirs, lockVars, procVars, calls, removes, histVars>>

SetCurrentDirErr(t) ==
    /\ alive
    /\ pc[t] = "set_current_dir"
    /\ ~set_current_dir_ok(Target(t))
    /\ ErrReturn(t)

(***************************************************************************)
(* Ending a guard: WithDir::leave and impl Drop for WithDir.               *)
(***************************************************************************)
\* fn reset_cwd(&self): set_current_dir(&self.original_dir)
reset_cwd_ok(g) == g.original_dir \in fsDirs
ResetToTarget(g) == g.dir
ResetToRoot(g) == Root
\* as if reset_cwd were set_current_dir("..")
ResetToParent(g) == Parent(g.dir)
\* as if reset_cwd returned Ok(()) without changing the directory
ResetKeepsCwd(g) == cwd
reset_cwd_dir(g) == g.original_dir

HookAlwaysRuns(g) == TRUE
\* as if Drop::drop had an empty body
HookNeverRuns(g) == FALSE
\* Drop::drop resets the directory only `if self.mutex.is_some()`
HookRuns(g) == g.mutex

\* a panic in a destructor of a thread that is already unwinding aborts the
\* process; a first panic unwinds or aborts, as the build's panic setting
\* says (Cargo's default is to unwind)
MustAbort(t) == t \in panicking
PanicOutcomes(t) == IF MustAbort(t) THEN {"abort"} ELSE {"unwind", "abort"}

\* after Drop::drop the fields are dropped in declaration order: original_dir
\* and a Cwd::NotTemp path only free memory, so the next step that other
\* threads can see is the removal of a Cwd::Temp directory, or else the unlock
\* as if Cwd::Temp held only the path of the directory, not the TempDir
FieldsKeepTemp(g) == "drop_mutex"
FieldsFrom(g) == IF g.temp THEN "drop_cwd" ELSE "drop_mutex"

\* Drop::drop(&mut self) of guard g, the rest of thread t's guards being `rest`
DropHook(t, g, c, rest) ==
    /\ guards' = [guards EXCEPT ![t] = rest]
    /\ pc' = [pc EXCEPT ![t] = FieldsFrom(g)]
    /\ IF ~HookRuns(g)
       THEN /\ cur' = [cur EXCEPT ![t] = [c EXCEPT !.g = g]]
            /\ UNCHANGED <<fsVars, restoreFailed, procVars>>
       ELSE /\ cur' = [cur EXCEPT ![t] =
                    [c EXCEPT !.g = [g EXCEPT !.resets = @ + 1],
                              !.ret = IF reset_cwd_ok(g) THEN "ok" ELSE "err"]]
            /\ IF reset_cwd_ok(g)
               THEN /\ cwd' = reset_cwd_dir(g)
                    /\ cwdGone' = FALSE
                    /\ UNCHANGED <<fsDirs, restoreFailed, procVars>>
               ELSE \* self.reset_cwd().unwrap() panics
                    /\ restoreFailed' = TRUE
                    /\ panicking' = panicking \cup {t}
                    /\ \E o \in PanicOutcomes(t) : alive' = (o = "unwind")
                    /\ UNCHANGED fsVars

\* a guard goes out of scope in the caller's code
Drop(t, i) ==
    /\ Running(t)
    /\ i \in 1..Len(guards[t])
    /\ DropHook(t, guards[t][i], [NoCall EXCEPT !.op = "drop"],
                Remove(guards[t], i))
    /\ lifo' = (lifo /\ i = Len(guards[t]))
    /\ ret' = [ret EXCEPT ![t] = NoRet]
    /\ UNCHANGED <<lockVars, calls, removes>>

\* pub fn leave(mut self): let ret = self.reset_cwd();
Leave(t, i) ==
    /\ Running(t)
    /\ i \in 1..Len(guards[t])
    /\ LET g == guards[t][i]
           ok == reset_cwd_ok(g)
       IN /\ cwd' = IF ok THEN reset_cwd_dir(g) ELSE cwd
          /\ cwdGone' = IF ok THEN FALSE ELSE cwdGone
          /\ restoreFailed' = (restoreFailed \/ ~ok)
          /\ cur' = [cur EXCEPT ![t] =
                  [NoCall EXCEPT !.op = "leave",
                                 !.g = [g EXCEPT !.resets = @ + 1],
                                 !.ret = IF ok THEN "ok" ELSE "err"]]
    /\ guards' = [guards EXCEPT ![t] = Remove(@, i)]
    /\ pc' = [pc EXCEPT ![t] = "leave_release"]
    /\ lifo' = (lifo /\ i = Len(guards[t]))
    /\ ret' = [ret EXCEPT ![t] = NoRet]
    /\ UNCHANGED <<fsDirs, lockVars, procVars, calls, removes>>

\* as if leave were `self.reset_cwd()?; self.mutex = None; Ok(())`
LeaveReleaseIfOk(t) ==
    /\ alive
    /\ pc[t] = "leave_release"
    /\ IF cur[t].ret = "ok"
       THEN /\ Unlock
            /\ cur' = [cur EXCEPT ![t].g.mutex = FALSE, ![t].g.releases = @ + 1]
       ELSE UNCHANGED <<lockVars, cur>>
    /\ pc' = [pc EXCEPT ![t] = "leave_drop"]
    /\ UNCHANGED <<fsVars, guards, ret, procVars, calls, removes, histVars>>

\* as if leave took the guard out of the field with std::mem::forget
LeaveForgetsToken(t) ==
    /\ alive
    /\ pc[t] = "leave_release"
    /\ cur' = [cur EXCEPT ![t].g.mutex = FALSE, ![t].g.releases = @ + 1]
    /\ pc' = [pc EXCEPT ![t] = "leave_drop"]
    /\ UNCHANGED <<fsVars, lockVars, guards, ret, procVars, calls, removes, histVars>>

\* self.mutex = None; drops the ReentrantMutexGuard the guard held
LeaveRelease(t) ==
    /\ alive
    /\ pc[t] = "leave_release"
    /\ Unlock
    /\ cur' = [cur EXCEPT ![t].g.mutex = FALSE, ![t].g.releases = @ + 1]
    /\ pc' = [pc EXCEPT ![t] = "leave_drop"]
    /\ UNCHANGED <<fsVars, guards, ret, procVars, calls, removes, histVars>>

\* `ret` is returned and self goes out of scope: Drop::drop runs on it
LeaveDrop(t) ==
    /\ alive
    /\ pc[t] = "leave_drop"
    /\ DropHook(t, cur[t].g, cur[t], guards[t])
    /\ UNCHANGED <<lockVars, ret, calls, removes, lifo>>

\* field `cwd` is dropped: a Cwd::Temp(TempDir) removes its directory
DropCwdField(t) ==
    /\ alive
    /\ pc[t] = "drop_cwd"
    /\ IF cur[t].g.temp
       THEN /\ fsDirs' = RemoveTree(fsDirs, cur[t].g.dir)
            /\ cwdGone' = (cwdGone \/ IsPrefix(cur[t].g.dir, cwd))
            /\ cwd' = cwd
       ELSE UNCHANGED fsVars
    /\ pc' = [pc EXCEPT ![t] = "drop_mutex"]
    /\ UNCHANGED <<lockVars, cur, guards, ret, procVars, calls, removes,
                   histVars>>

AfterDropResumes(t) == "idle"
\* where the thread goes once the guard is gone: back to the caller, or on
\* with the unwinding of the panic raised by Drop::drop
AfterDrop(t) == IF t \in panicking THEN "unwind" ELSE "idle"

\* field `mutex` is dropped: a Some(guard) unlocks; then the call is over
DropMutexField(t) ==
    /\ alive
    /\ pc[t] = "drop_mutex"
    /\ IF cur[t].g.mutex THEN Unlock ELSE UNCHANGED lockVars
    /\ LET n == cur[t].g.releases + (IF cur[t].g.mutex THEN 1 ELSE 0)
       IN ret' = [ret EXCEPT ![t] =
              [op |-> IF t \in panicking THEN "panic" ELSE cur[t].op,
               val |-> cur[t].ret,
               dir |-> NoPath,
               resets |-> cur[t].g.resets,
               releases |-> n]]
    /\ pc' = [pc EXCEPT ![t] = AfterDrop(t)]
    /\ cur' = [cur EXCEPT ![t] = NoCall]
    /\ UNCHANGED <<fsVars, guards, procVars, calls, removes, histVars>>

\* unwinding the panic drops the guards the thread still holds
UnwindDrop(t, i) ==
    /\ alive
    /\ pc[t] = "unwind"
    /\ i \in 1..Len(guards[t])
    /\ DropHook(t, guards[t][i], [NoCall EXCEPT !.op = "drop"],
                Remove(guards[t], i))
    /\ lifo' = (lifo /\ i = Len(guards[t]))
    /\ UNCHANGED <<lockVars, ret, calls, removes>>

\* the panic reaches the bottom of the stack: a spawned thread ends, the main
\* thread ends the process
UnwindExit(t) ==
    /\ alive
    /\ pc[t] = "unwind"
    /\ guards[t] = << >>
    /\ alive' = (t # "main")
    /\ pc' = [pc EXCEPT ![t] = "dead"]
    /\ UNCHANGED <<fsVars, lockVars, cur, guards, ret, panicking, calls, removes,
                   histVars>>

(***************************************************************************)
(* Code around WithDir.                                                    *)
(***************************************************************************)
\* the caller reads std::env::current_dir() inside a scope, as the tests do
ReadCwd(t) ==
    /\ Running(t)
    /\ guards[t] # << >>
    /\ ret' = [ret EXCEPT ![t] =
            [NoRet EXCEPT !.op = "current_dir",
                          !.val = IF current_dir_ok THEN "ok" ELSE "err",
                          !.dir = IF current_dir_ok THEN cwd ELSE NoPath]]
    /\ UNCHANGED <<fsVars, lockVars, pc, cur, guards, procVars, calls, removes,
                   histVars>>

\* the caller's code removes a directory tree (std::fs::remove_dir_all)
ExternalRemove(t, d) ==
    /\ Running(t)
    /\ removes < MaxRemoves
    /\ d \in fsDirs
    /\ removes' = removes + 1
    /\ fsDirs' = RemoveTree(fsDirs, d)
    /\ cwdGone' = (cwdGone \/ IsPrefix(d, cwd))
    /\ cwd' = cwd
    /\ UNCHANGED <<lockVars, pc, cur, guards, ret, procVars, calls,
                   histVars>>

Next ==
    \/ \E t \in Threads :
        \/ \E arg \in NewArgs(t) : CallCtor(t, "new", arg)
        \/ \E arg \in CreateArgs(t) : CallCtor(t, "create", arg)
        \/ \E arg \in CreateAllArgs(t) : CallCtor(t, "create_all", arg)
        \/ CallCtor(t, "temp", NoArg)
        \/ Lock(t)
        \/ CurrentDirOk(t)
        \/ CurrentDirErr(t)
        \/ CreateDirOk(t)
        \/ CreateDirErr(t)
        \/ CreateDirAllOk(t)
        \/ CreateDirAllErr(t)
        \/ TempDirNewOk(t)
        \/ TempDirNewErr(t)
        \/ SetCurrentDirOk(t)
        \/ SetCurrentDirErr(t)
        \/ \E i \in 1..Len(guards[t]) : Drop(t, i)
        \/ \E i \in 1..Len(guards[t]) : Leave(t, i)
        \/ \E i \in 1..Len(guards[t]) : UnwindDrop(t, i)
        \/ LeaveRelease(t)
        \/ LeaveDrop(t)
        \/ DropCwdField(t)
        \/ DropMutexField(t)
        \/ UnwindExit(t)
        \/ ReadCwd(t)
        \/ \E d \in Removable : ExternalRemove(t, d)

Spec == Init /\ [][Next]_vars

(***************************************************************************)
(* Scheduling.  A thread that is inside a WithDir call, or unwinding a     *)
(* panic, is runnable and the operating system keeps running it: weak      *)
(* fairness of its steps.  A thread parked in DIR_MUTEX.lock() gets the    *)
(* mutex if it is free again and again (parking_lot hands a lock over to   *)
(* a parked thread when others keep retaking it): strong fairness of the   *)
(* lock step.  What the callers do between calls is not scheduled.         *)
(***************************************************************************)
InCall(t) ==
    \/ CurrentDirOk(t)
    \/ CurrentDirErr(t)
    \/ CreateDirOk(t)
    \/ CreateDirErr(t)
    \/ CreateDirAllOk(t)
    \/ CreateDirAllErr(t)
    \/ TempDirNewOk(t)
    \/ TempDirNewErr(t)
    \/ SetCurrentDirOk(t)
    \/ SetCurrentDirErr(t)
    \/ LeaveRelease(t)
    \/ LeaveDrop(t)
    \/ DropCwdField(t)
    \/ DropMutexField(t)
    \/ \E i \in 1..Len(guards[t]) : UnwindDrop(t, i)
    \/ UnwindExit(t)

Fairness ==
    \A t \in Threads :
        /\ WF_vars(InCall(t))
        /\ SF_vars(Lock(t))

FairSpec == Spec /\ Fairness

(***************************************************************************)
(* Vocabulary of the properties.                                           *)
(***************************************************************************)
\* the most recently created guard thread t still holds
Innermost(t) == guards[t][Len(guards[t])]
\* t is inside a constructor, between its lock and its return
InCtor(t) == pc[t] \in {"current_dir", "mkdir", "set_current_dir"}
\* t is ending a guard whose lock token it has not released yet
EndingLocked(t) ==
    \/ pc[t] = "leave_release"
    \/ pc[t] \in {"drop_cwd", "drop_mutex"} /\ cur[t].g.mutex
\* the lock tokens t owns, counted from what t is doing and holding
Tokens(t) ==
    Len(guards[t]) + (IF InCtor(t) THEN 1 ELSE 0) + (IF EndingLocked(t) THEN 1 ELSE 0)
\* t has just set the CWD back for the guard it is ending, and still holds
\* that guard's token
Restored(t) == EndingLocked(t) /\ cur[t].ret = "ok"
\* t's leave is returning the error of a failed restoration
LeaveFailing(t) == cur[t].op = "leave" /\ cur[t].ret = "err"
\* t's last call was a constructor and returned a guard
JustEntered(t) == ret[t].op \in CtorOps /\ ret[t].val = "ok" /\ guards[t] # << >>

(***************************************************************************)
(* C1 - Round trip of one guard: right after a successful constructor the  *)
(* process CWD is the directory the path argument names (resolved against  *)
(* the CWD the call found), and right after the guard's restoration        *)
(* succeeded, by leave or by drop, the CWD is the one that was in effect   *)
(* when the constructor call took the lock.                                *)
(***************************************************************************)
RoundTrip ==
    \A t \in Threads :
        /\ JustEntered(t) =>
              cwd = Resolve(Innermost(t).pre, Innermost(t).path)
        /\ Restored(t) => cwd = cur[t].g.pre

RoundTripWitness ==
    \E t \in Threads :
        /\ Restored(t)
        /\ cur[t].op = "drop"
        /\ cur[t].g.path = Abs(DirA)
        /\ cur[t].g.pre = Root
        /\ cwd = Root

(***************************************************************************)
(* C2 - Nesting on one thread: with guards ended innermost first and no    *)
(* restoration failing, the inner guard of a nested pair was created with  *)
(* the outer guard's directory as its original directory, ending the       *)
(* inner guard (by leave or by drop) puts the CWD back to the outer        *)
(* guard's directory, and ending the outermost guard puts it back to the   *)
(* CWD found by that guard's constructor.                                  *)
(***************************************************************************)
Nesting ==
    (lifo /\ ~restoreFailed) =>
        \A t \in Threads :
            /\ \A i \in 1..(Len(guards[t]) - 1) :
                  guards[t][i + 1].original_dir = guards[t][i].dir
            /\ Restored(t) =>
                  cwd = IF guards[t] # << >> THEN Innermost(t).dir ELSE cur[t].g.pre

NestingWitness ==
    \E t \in Threads :
        /\ lifo /\ ~restoreFailed
        /\ Restored(t)
        /\ cur[t].op = "leave"
        /\ Len(guards[t]) = 1
        /\ cur[t].g.dir = DirAB
        /\ cwd = DirA
        /\ guards[t][1].original_dir = Root

(***************************************************************************)
(* C3 - Mutual exclusion between threads: at most one thread owns lock     *)
(* tokens (live guards, a constructor past its lock, a guard being ended   *)
(* and not yet unlocked); a thread waiting at the lock of a constructor    *)
(* cannot pass it while another thread owns a token, so it neither reads   *)
(* nor changes the CWD before the other thread's count is back to zero.    *)
(***************************************************************************)
MutualExclusion ==
    \A t \in Threads : \A u \in Threads \ {t} :
        /\ ~(Tokens(t) > 0 /\ Tokens(u) > 0)
        /\ Tokens(t) > 0 => lockOwner = t /\ lockCount = Tokens(t)
        /\ (pc[u] = "lock" /\ Tokens(t) > 0) => ~CanLock(u)

MutualExclusionWitness ==
    \E t \in Threads : \E u \in Threads \ {t} :
        /\ pc[u] = "lock"
        /\ Len(guards[t]) = 2
        /\ ~CanLock(u)

(***************************************************************************)
(* C4 - Atomic capture of the original directory: from the constructor's   *)
(* read of the CWD to its set of the CWD no other thread is at a place     *)
(* where WithDir reads or writes the CWD (it holds no guard, is in no      *)
(* constructor past the lock, and runs no restoring destructor), and the   *)
(* original_dir the constructor read is still the process CWD when it      *)
(* comes to set it.                                                        *)
(***************************************************************************)
AtomicCapture ==
    \A t \in Threads :
        pc[t] \in {"mkdir", "set_current_dir"} =>
            /\ cur[t].original_dir = cwd
            /\ \A u \in Threads \ {t} :
                /\ guards[u] = << >>
                /\ ~InCtor(u)
                /\ ~EndingLocked(u)
                /\ pc[u] = "leave_drop" => ~HookRuns(cur[u].g)

AtomicCaptureWitness ==
    \E t \in Threads : \E u \in Threads \ {t} :
        /\ pc[t] = "set_current_dir"
        /\ cur[t].original_dir = DirA
        /\ pc[u] \in {"lock", "leave_drop", "drop_cwd"}

(***************************************************************************)
(* C5 - No cross-thread observation: when the threads end their guards     *)
(* innermost first (by leave or by drop) and nobody removes directories,   *)
(* every current_dir() a thread makes while it holds a guard succeeds and  *)
(* returns the directory of that thread's innermost guard.                 *)
(***************************************************************************)
NoCrossThreadObservation ==
    \A t \in Threads :
        (ret[t].op = "current_dir" /\ lifo /\ removes = 0) =>
            /\ ret[t].val = "ok"
            /\ ret[t].dir = Innermost(t).dir

NoCrossThreadObservationWitness ==
    \E t \in Threads : \E u \in Threads \ {t} :
        /\ lifo /\ removes = 0
        /\ ret[t].op = "current_dir"
        /\ ret[t].dir = Innermost(t).dir
        /\ Len(guards[t]) = 2
        /\ ret[u].op \in {"leave", "drop"}

(***************************************************************************)
(* C6 - Failed construction leaves no trace on lock or CWD: when a         *)
(* constructor returns an error, the CWD is the one the call found when    *)
(* it took the lock, the thread holds the guards it held before and no     *)
(* other, and its acquisition count is the one it had before the call.     *)
(***************************************************************************)
CtorFails(t) == InCtor(t) /\ pc'[t] = "idle" /\ ret'[t].val = "err"

FailedCtorLeavesNoTrace ==
    [][\A t \in Threads :
          CtorFails(t) =>
              /\ cwd' = cur[t].pre
              /\ guards'[t] = guards[t]
              /\ Len(guards'[t]) = cur[t].count0
              /\ lockCount' = cur[t].count0
              /\ lockOwner' = (IF cur[t].count0 = 0 THEN NoThread ELSE t)]_vars

FailedCtorWitness ==
    \E t \in Threads :
        /\ ret[t].op \in CtorOps
        /\ ret[t].val = "err"
        /\ pc[t] = "idle"
        /\ Len(guards[t]) = 1
        /\ lockCount = 1

(***************************************************************************)
(* C7 - leave with a failing restoration is recoverable and still          *)
(* unlocks: the step that fails to set the CWD back, and every later step  *)
(* of that leave, neither ends the process nor makes the thread panic;     *)
(* once past `self.mutex = None` the guard's token is released (once),     *)
(* the thread's count is the number of guards it still holds, and a        *)
(* thread waiting at the lock can pass when the caller holds no other      *)
(* guard; leave returns the error to a caller that keeps running.          *)
(***************************************************************************)
LeaveFailureReleased ==
    \A t \in Threads :
        /\ (LeaveFailing(t) /\ pc[t] # "leave_release") =>
              /\ ~cur[t].g.mutex
              /\ cur[t].g.releases = 1
              /\ HeldBy(t) = Len(guards[t])
              /\ t \notin panicking
              /\ guards[t] = << >> => \A u \in Threads \ {t} : Tokens(u) > 0 \/ CanLock(u)
        /\ (ret[t].op = "leave" /\ ret[t].val = "err") =>
              /\ ret[t].releases = 1
              /\ t \notin panicking
              /\ pc[t] # "dead"

LeaveFailureRecoverable ==
    /\ []LeaveFailureReleased
    /\ [][\A t \in Threads :
             (LeaveFailing(t)' /\ pc'[t] # pc[t]) \/ (LeaveFailing(t) /\ pc'[t] # pc[t]) =>
                 /\ alive' = alive
                 /\ panicking' = panicking]_vars

LeaveFailureWitness ==
    \E t \in Threads : \E u \in Threads \ {t} :
        /\ ret[t].op = "leave"
        /\ ret[t].val = "err"
        /\ pc[t] = "idle"
        /\ alive
        /\ InCtor(u)

ExactlyOnce ==
    \A t \in Threads :
        /\ \A i \in 1..Len(guards[t]) :
              /\ guards[t][i].resets = 0
              /\ guards[t][i].releases = 0
              /\ guards[t][i].mutex
        /\ pc[t] \in {"leave_release", "leave_drop", "drop_cwd", "drop_mutex"} =>
              /\ cur[t].g.resets = 1
              /\ cur[t].g.releases = (IF cur[t].g.mutex THEN 0 ELSE 1)
              /\ pc[t] = "leave_release" => cur[t].g.mutex
              /\ pc[t] = "leave_drop" => ~cur[t].g.mutex
        /\ ret[t].op \in {"leave", "drop", "panic"} =>
              /\ ret[t].resets = 1
              /\ ret[t].releases = 1

ExactlyOnceWitness ==
    \E t \in Threads : \E u \in Threads \ {t} :
        /\ ret[t].op = "leave"
        /\ ret[t].val = "ok"
        /\ ret[t].resets = 1
        /\ ret[t].releases = 1
        /\ ret[u].op = "drop"

(***************************************************************************)
(* C10 - as the claim states it: whenever a thread holds guards, the       *)
(* process CWD is the directory of its most recently created live guard,   *)
(* in whatever order the guards are ended (no directory being removed).    *)
(***************************************************************************)
CwdTracksInnermostAnyOrder ==
    removes = 0 =>
        \A t \in Threads : guards[t] # << >> => cwd = Innermost(t).dir

(***************************************************************************)
(* C10, amended - whenever a thread holds guards, the process CWD is the   *)
(* directory of its most recently created live guard, provided every       *)
(* guard ended so far was the innermost of its thread when it was ended    *)
(* and no restoration has failed.                                          *)
(***************************************************************************)
CwdTracksInnermost ==
    (lifo /\ ~restoreFailed) =>
        \A t \in Threads : guards[t] # << >> => cwd = Innermost(t).dir

CwdTracksInnermostWitness ==
    \E t \in Threads :
        /\ lifo /\ ~restoreFailed
        /\ Len(guards[t]) = 1
        /\ ret[t].op \in {"leave", "drop"}
        /\ guards[t][1].temp
        /\ cwd = Innermost(t).dir

(***************************************************************************)
(* C11 - Reentrancy: a constructor called by a thread that already holds   *)
(* DIR_MUTEX (it has one or more live guards) finds the lock open at its   *)
(* first statement, whatever the other thread is doing, so it can always   *)
(* take its step; past the lock it goes on to read and set the CWD with    *)
(* the thread's acquisition count one above what it was at the call, at    *)
(* every nesting depth the bound allows.                                   *)
(***************************************************************************)
Reentrancy ==
    \A t \in Threads :
        /\ (pc[t] = "lock" /\ guards[t] # << >>) =>
              /\ CanLock(t)
              /\ ENABLED Lock(t) \/ ~alive
              /\ HeldBy(t) = cur[t].count0
              /\ cur[t].count0 = Len(guards[t])
        /\ InCtor(t) =>
              /\ lockOwner = t
              /\ lockCount = cur[t].count0 + 1
              /\ cur[t].count0 = Len(guards[t])

ReentrancyWitness ==
    \E t \in Threads : \E u \in Threads \ {t} :
        /\ pc[t] = "set_current_dir"
        /\ cur[t].count0 = 1
        /\ lockCount = 2
        /\ pc[u] = "lock"

(***************************************************************************)
(* C12 - leave is equivalent to drop on success: the two ways of ending a  *)
(* guard whose restoration succeeds meet one and the same postcondition,   *)
(* in which the way of ending does not occur.  The step that restores      *)
(* leaves the CWD at the guard's original_dir and the directories as they  *)
(* were; by the time the guard's fields are gone its directory has been    *)
(* removed if it was a TempDir and the directories are untouched if not;   *)
(* when the call is over the thread's acquisition count is one less than   *)
(* with the guard, that is the number of guards it still holds, the CWD    *)
(* is still the guard's original_dir unless another thread has a guard or  *)
(* a constructor under way (guards being ended innermost first, no         *)
(* restoration failing), and leave returns Ok.  (Guards dropped by the     *)
(* unwinding of a panic are outside the comparison.)                       *)
(***************************************************************************)
EndsOk(t) == cur[t].op \in {"leave", "drop"} /\ cur[t].ret = "ok" /\ t \notin panicking

LeaveEquivalentToDrop ==
    [][\A t \in Threads :
          /\ (Running(t) /\ EndsOk(t)') =>
                /\ cwd' = cur'[t].g.original_dir
                /\ ~cwdGone'
                /\ fsDirs' = fsDirs
                /\ Len(guards'[t]) = Len(guards[t]) - 1
                /\ HeldBy(t) = Len(guards[t])
          /\ (EndsOk(t)' /\ pc'[t] = "drop_mutex" /\ pc[t] # "drop_mutex") =>
                IF cur'[t].g.temp
                THEN cur'[t].g.dir \notin fsDirs'
                ELSE fsDirs' = fsDirs
          /\ (EndsOk(t) /\ pc[t] = "drop_mutex" /\ pc'[t] # "drop_mutex") =>
                /\ pc'[t] = "idle"
                /\ ret'[t].op = cur[t].op
                /\ ret'[t].val = "ok"
                /\ HeldBy(t)' = Len(guards'[t])
                /\ guards'[t] = guards[t]
                /\ (lifo /\ ~restoreFailed /\ \A u \in Threads \ {t} : Tokens(u) = 0) =>
                       cwd' = cur[t].g.original_dir]_vars

LeaveEquivalentToDropWitness ==
    \E t \in Threads : \E u \in Threads \ {t} :
        /\ pc[t] = "drop_mutex"
        /\ cur[t].op = "leave"
        /\ cur[t].ret = "ok"
        /\ cur[t].g.temp
        /\ cur[t].g.dir \notin fsDirs
        /\ cwd = cur[t].g.original_dir
        /\ ret[u].op = "drop"
        /\ ret[u].val = "ok"

(***************************************************************************)
(* C13 - Ephemeral scope: WithDir::temp creates a directory that did not   *)
(* exist and is not the CWD the call found; when temp returns its guard    *)
(* the CWD is that directory.  When the guard is ended, by leave or by     *)
(* drop, the step that drops its TempDir leaves no such directory, and a   *)
(* successful restoration has put the CWD back to the CWD the call found:  *)
(* in a drop both are seen together before the lock is released.  (That    *)
(* the new directory is not the CWD the call found is stated for runs in   *)
(* which no restoration has failed: after a failed leave the CWD can be a  *)
(* TempDir that is removed while the next temp waits, and whose name is    *)
(* then free again.)                                                       *)
(***************************************************************************)
EphemeralScope ==
    /\ [](\A t \in Threads :
            /\ (JustEntered(t) /\ ret[t].op = "temp") =>
                  /\ Innermost(t).temp
                  /\ cwd = Innermost(t).dir
                  /\ ~restoreFailed => cwd # Innermost(t).pre
            /\ (pc[t] = "drop_mutex" /\ cur[t].g.temp /\ cur[t].g.mutex) =>
                  /\ cur[t].g.dir \notin fsDirs
                  /\ cur[t].ret = "ok" => cwd = cur[t].g.pre
            /\ (pc[t] = "leave_release" /\ cur[t].g.temp /\ cur[t].ret = "ok") =>
                  cwd = cur[t].g.pre)
    /\ [][\A t \in Threads :
            /\ (pc[t] = "mkdir" /\ cur[t].op = "temp" /\ pc'[t] = "set_current_dir") =>
                  /\ cur'[t].tmp \notin fsDirs
                  /\ cur'[t].tmp \in fsDirs'
                  /\ ~restoreFailed => cur'[t].tmp # cur[t].pre
            /\ (pc[t] = "set_current_dir" /\ cur[t].op = "temp" /\ ret'[t].val = "ok") =>
                  /\ cwd' = cur[t].tmp
                  /\ ~restoreFailed => cwd' # cwd
                  /\ cwd' \in fsDirs'
                  /\ ~cwdGone'
            /\ (pc[t] \notin {"drop_cwd", "drop_mutex"} /\ pc'[t] = "drop_mutex") =>
                  ~cur'[t].g.temp
            /\ (pc[t] = "drop_cwd" /\ pc'[t] # pc[t]) =>
                  /\ cur[t].g.temp
                  /\ cur[t].g.dir \notin fsDirs'
                  /\ pc'[t] = "drop_mutex"]_vars

EphemeralScopeWitness ==
    \E t \in Threads :
        /\ pc[t] = "drop_mutex"
        /\ cur[t].op = "drop"
        /\ cur[t].g.temp
        /\ cur[t].ret = "ok"
        /\ cur[t].g.pre = DirA
        /\ cwd = DirA
        /\ cur[t].g.dir \notin fsDirs

(***************************************************************************)
(* C14 - Created directories persist: create_all(P) whose path runs        *)
(* through no regular file creates P with the parents that were missing,   *)
(* and create(P) creates P; the call then returns its guard with the CWD   *)
(* at P and P existing.  No step of WithDir ever removes a directory       *)
(* other than the TempDir of a temp call, so P outlives its guard; a       *)
(* successful restoration of such a guard puts the CWD back to the CWD     *)
(* the call found.                                                         *)
(***************************************************************************)
TempDirs == {d \in fsDirs : Len(d) > Len(TempRoot) /\ IsPrefix(TempRoot, d)}

CreatedDirsPersist ==
    /\ [](\A t \in Threads :
            /\ (JustEntered(t) /\ ret[t].op \in {"create", "create_all"}) =>
                  /\ ~Innermost(t).temp
                  /\ cwd = Innermost(t).dir
                  /\ cwd = Resolve(Innermost(t).pre, Innermost(t).path)
                  /\ removes = 0 => cwd \in fsDirs
            /\ (Restored(t) /\ ~cur[t].g.temp) =>
                  /\ cwd = cur[t].g.pre
                  /\ removes = 0 => cur[t].g.dir \in fsDirs)
    /\ [][/\ removes' = removes => (fsDirs \ TempDirs) \subseteq fsDirs'
          /\ \A t \in Threads :
                /\ (pc[t] = "mkdir" /\ cur[t].op = "create_all" /\ pc'[t] # pc[t]
                        /\ Prefixes(cur[t].path.comps) \cap Files = {}) =>
                      /\ pc'[t] = "set_current_dir"
                      /\ Prefixes(cur[t].path.comps) \subseteq fsDirs'
                /\ (pc[t] = "set_current_dir" /\ cur[t].op \in {"create", "create_all"}
                        /\ pc'[t] # pc[t]) =>
                      /\ ret'[t].val = "ok"
                      /\ cwd' = Resolve(cwd, cur[t].path)
                      /\ cwd' \in fsDirs']_vars

CreatedDirsPersistWitness ==
    \E t \in Threads :
        /\ calls = 1
        /\ ret[t].op = "drop"
        /\ ret[t].val = "ok"
        /\ guards[t] = << >>
        /\ lockCount = 0
        /\ cwd = Root
        /\ DirC \in fsDirs
        /\ DirCD \in fsDirs

(***************************************************************************)
(* C15 - Restore before unlock: a guard that has not yet had its           *)
(* restoration attempted still holds its lock token; a guard that is       *)
(* about to release its token (at `self.mutex = None` in leave, at the     *)
(* drop of the mutex field in drop) has had the attempt; a token that was  *)
(* released was released after the attempt.  Hence while another thread's  *)
(* constructor is past its lock, no guard of this thread is waiting for    *)
(* its restoration.                                                        *)
(***************************************************************************)
Ending(t) == pc[t] \in {"leave_release", "leave_drop", "drop_cwd", "drop_mutex"}

RestoreBeforeUnlock ==
    \A t \in Threads :
        /\ \A i \in 1..Len(guards[t]) :
              guards[t][i].resets = 0 =>
                  /\ guards[t][i].mutex
                  /\ guards[t][i].releases = 0
                  /\ lockOwner = t
        /\ Ending(t) =>
              /\ cur[t].g.resets = 0 => (cur[t].g.mutex /\ cur[t].g.releases = 0)
              /\ cur[t].g.releases > 0 => (cur[t].g.resets = 1 /\ ~cur[t].g.mutex)
              /\ pc[t] = "leave_release" => (cur[t].g.resets = 1 /\ cur[t].g.mutex)
              /\ (pc[t] = "drop_mutex" /\ cur[t].g.mutex) => cur[t].g.resets = 1
              /\ cur[t].g.mutex => lockOwner = t
        /\ ret[t].op \in {"leave", "drop", "panic"} => ret[t].releases <= ret[t].resets
        /\ \A u \in Threads \ {t} :
              InCtor(u) =>
                  /\ guards[t] = << >>
                  /\ Ending(t) => (cur[t].g.resets = 1 /\ ~cur[t].g.mutex)

RestoreBeforeUnlockWitness ==
    \E t \in Threads : \E u \in Threads \ {t} :
        /\ pc[u] = "current_dir"
        /\ pc[t] = "leave_drop"
        /\ cur[t].g.resets = 1
        /\ cur[t].g.releases = 1
        /\ cur[t].ret = "ok"
        /\ cwd = cur[t].g.original_dir

(***************************************************************************)
(* C16 - as the claim states it: in every reachable state the acquisition  *)
(* count of each thread is the number of its guards that are not yet       *)
(* ended (a guard being ended counts until its token is released), and     *)
(* the lock is free exactly when there is no such guard in the process.    *)
(***************************************************************************)
LiveGuards(t) == Len(guards[t]) + (IF EndingLocked(t) THEN 1 ELSE 0)

LockCountIsLiveGuardsEverywhere ==
    /\ \A t \in Threads : HeldBy(t) = LiveGuards(t)
    /\ lockOwner = NoThread <=> \A t \in Threads : LiveGuards(t) = 0

(***************************************************************************)
(* C16, amended - the acquisition count of each thread is the number of    *)
(* its guards that are not yet ended, plus one while the thread is inside  *)
(* a constructor between its lock() and its return; so the two are equal   *)
(* whenever the thread is outside a constructor, in particular after a     *)
(* constructor has failed, and the lock is free exactly when no guard is   *)
(* live and no constructor is past its lock.                               *)
(***************************************************************************)
LockCountIsLiveGuards ==
    /\ \A t \in Threads :
          /\ HeldBy(t) = LiveGuards(t) + (IF InCtor(t) THEN 1 ELSE 0)
          /\ ~InCtor(t) => HeldBy(t) = LiveGuards(t)
          /\ (ret[t].op \in CtorOps /\ ret[t].val = "err") => HeldBy(t) = Len(guards[t])
    /\ lockOwner = NoThread <=> \A t \in Threads : LiveGuards(t) = 0 /\ ~InCtor(t)
    /\ lockOwner = NoThread <=> lockCount = 0

LockCountIsLiveGuardsWitness ==
    \E t \in Threads : \E u \in Threads \ {t} :
        /\ pc[t] = "mkdir"
        /\ Len(guards[t]) = 1
        /\ lockCount = 2
        /\ ret[u].op \in CtorOps
        /\ ret[u].val = "err"

(***************************************************************************)
(* C17 - Progress of blocked constructors: while the process runs, a       *)
(* thread waiting in a constructor's lock() is never stuck for good: the   *)
(* owner of the mutex always has a step of its own to take (no deadlock);  *)
(* and under fair scheduling, if every thread is again and again without   *)
(* guards, every constructor call that stands at its lock() gets past it   *)
(* and returns to its caller, with a guard or with an error, unless the    *)
(* process is terminated first.                                            *)
(***************************************************************************)
CanMove(t) ==
    \/ ENABLED InCall(t)
    \/ ENABLED Lock(t)
    \/ Running(t) /\ guards[t] # << >>

NoDeadlock ==
    \A u \in Threads :
        (alive /\ pc[u] = "lock") =>
            \/ ENABLED Lock(u)
            \/ lockOwner \in Threads \ {u} /\ CanMove(lockOwner)

GuardsAlwaysEnded == \A t \in Threads : []<>(guards[t] = << >>)

Returned(u) == pc[u] = "idle" /\ ret[u].op \in CtorOps /\ ret[u].val \in {"ok", "err"}

BlockedConstructorsProgress ==
    /\ []NoDeadlock
    /\ GuardsAlwaysEnded =>
          \A u \in Threads : (pc[u] = "lock") ~> (Returned(u) \/ ~alive)

BlockedConstructorsProgressWitness ==
    \E t \in Threads : \E u \in Threads \ {t} :
        /\ pc[u] = "lock"
        /\ ~CanLock(u)
        /\ pc[t] = "drop_mutex"
        /\ lockCount = 1
        /\ alive

(***************************************************************************)
(* C18 - Quiescent CWD is the initial CWD: as long as every guard was      *)
(* ended while it was the innermost of its thread and no restoration has   *)
(* failed, in every state in which no thread holds a guard the process     *)
(* CWD is the CWD of the initial state, whatever constructors, leaves and  *)
(* drops the two threads have run and however they were nested.            *)
(***************************************************************************)
InitialCwd == Root

NoGuardActive == \A t \in Threads : guards[t] = << >>

QuiescentCwdIsInitial ==
    (lifo /\ ~restoreFailed /\ NoGuardActive) => cwd = InitialCwd

QuiescentCwdIsInitialWitness ==
    \E t \in Threads : \E u \in Threads \ {t} :
        /\ lifo /\ ~restoreFailed /\ NoGuardActive
        /\ calls = MaxCalls
        /\ lockCount = 0
        /\ ret[t].op = "leave"
        /\ ret[u].op = "drop"
        /\ DirCD \in fsDirs
        /\ cwd = InitialCwd

(***************************************************************************)
(* C19 - The ephemeral directory outlives the switch back: the TempDir of  *)
(* a temp guard is removed only when the guard has had its restoration     *)
(* attempted, in leave and in drop (until then it exists, unless code      *)
(* outside removed it); when the restoration succeeded, the removal does   *)
(* not take the directory the process is in; a temp call that fails at     *)
(* set_current_dir leaves no directory behind.  So without a failed        *)
(* restoration and without outside removals the process CWD always         *)
(* exists.  (Once a restoration has failed, a later guard can have a       *)
(* removed TempDir as its original_dir, and a new TempDir can take that    *)
(* name: the clause on the directory the process is in is stated for runs  *)
(* without a failed restoration.)                                          *)
(***************************************************************************)
TempOutlivesSwitchBack ==
    /\ [](/\ \A t \in Threads :
               /\ \A i \in 1..Len(guards[t]) :
                     (guards[t][i].temp /\ removes = 0) => guards[t][i].dir \in fsDirs
               /\ pc[t] = "drop_cwd" =>
                     /\ cur[t].g.temp
                     /\ cur[t].g.resets = 1
                     /\ removes = 0 => cur[t].g.dir \in fsDirs
                     /\ (cur[t].ret = "ok" /\ ~restoreFailed) =>
                           ~IsPrefix(cur[t].g.dir, cwd)
               /\ (pc[t] \in {"leave_release", "leave_drop"} /\ cur[t].g.temp
                       /\ removes = 0) => cur[t].g.dir \in fsDirs
          /\ (~restoreFailed /\ removes = 0) => (~cwdGone /\ cwd \in fsDirs))
    /\ [][\A t \in Threads :
            /\ (pc[t] = "drop_cwd" /\ pc'[t] # pc[t] /\ cur[t].ret = "ok") =>
                  /\ ~restoreFailed => cwdGone' = cwdGone
                  /\ cur[t].g.dir \notin fsDirs'
            /\ (pc[t] = "set_current_dir" /\ cur[t].op = "temp" /\ ret'[t].val = "err") =>
                  cur[t].tmp \notin fsDirs'
            /\ \A d \in TempDirs :
                  (d \notin fsDirs' /\ removes' = removes) =>
                      \/ pc[t] = "drop_cwd" /\ cur[t].g.dir = d
                      \/ pc[t] = "set_current_dir" /\ cur[t].tmp = d
                      \/ \E u \in Threads \ {t} :
                            \/ pc[u] = "drop_cwd" /\ cur[u].g.dir = d
                            \/ pc[u] = "set_current_dir" /\ cur[u].tmp = d]_vars

TempOutlivesSwitchBackWitness ==
    \E t \in Threads :
        /\ pc[t] = "drop_cwd"
        /\ cur[t].op = "leave"
        /\ cur[t].ret = "ok"
        /\ cur[t].g.dir \in fsDirs
        /\ cur[t].g.original_dir = DirA
        /\ cwd = DirA
        /\ removes = 0

====
